---- MODULE Spec2Model ----
(***************************************************************************)
(* A model of the pastebin of src/main.py: a flat-file store of JSON       *)
(* documents behind six HTTP handlers.                                     *)
(*                                                                         *)
(* Text is a sequence of one-character strings.  A Python value that may   *)
(* be None is an optional: None is <<>>, a text t is <<t>>.  A Python dict *)
(* of text values is a sequence of <<key, value>> pairs.  Field values of  *)
(* a request are text, as the data model of the pastebin has them.         *)
(*                                                                         *)
(* The server handles each request in a thread of its own and the code     *)
(* holds no lock, so a handler is one step for each of its accesses to the *)
(* file system: open(filepath, 'w') and the write of the document in       *)
(* save_paste, os.listdir and each load_paste in pastebin_list, the one    *)
(* load_paste of the other read handlers.  What a handler computes between *)
(* two accesses belongs to the step of the access before it.               *)
(***************************************************************************)
EXTENDS Integers, Sequences, FiniteSets, TLC

VARIABLES
    files,      \* the file system: path -> the file's text
    threads,    \* thread -> the handler it runs and where that stands
    request,    \* the request the last step answered, if it answered one
    response    \* the response it gave

vars == <<files, threads, request, response>>

(***************************************************************************)
(* Python values                                                           *)
(***************************************************************************)
None == <<>>

Some(t) == <<t>>

\* Python truthiness of an optional text: None and "" are falsy.
Truthy(o) == o # None /\ Len(o[1]) > 0

\* a or b
PyOr(a, b) == IF Truthy(a) THEN a ELSE b

\* s * n
Rep(s, n) == [i \in 1..(n * Len(s)) |-> s[((i - 1) % Len(s)) + 1]]

\* The first index of s at or after i whose character is in chars, or
\* Len(s) + 1.
FirstOf(s, i, chars) ==
    CHOOSE e \in i..(Len(s) + 1) :
        /\ e = Len(s) + 1 \/ s[e] \in chars
        /\ \A m \in i..(e - 1) : s[m] \notin chars

\* s.endswith(suffix)
EndsWith(s, suffix) ==
    /\ Len(s) >= Len(suffix)
    /\ SubSeq(s, Len(s) - Len(suffix) + 1, Len(s)) = suffix

RECURSIVE RStrip(_, _)
\* s.rstrip(c)
RStrip(s, c) ==
    IF Len(s) > 0 /\ s[Len(s)] = c THEN RStrip(SubSeq(s, 1, Len(s) - 1), c) ELSE s

\* s.replace(old, new) for a one-character old
Replace(s, old, new) == [i \in 1..Len(s) |-> IF s[i] = old THEN new ELSE s[i]]

\* The code point of a character of the model's alphabet.
Ord(c) ==
    CASE c = "\t" -> 9   [] c = "\n" -> 10  [] c = "\r" -> 13  [] c = " " -> 32
      [] c = "\"" -> 34  [] c = "&" -> 38   [] c = "'" -> 39   [] c = "-" -> 45
      [] c = "." -> 46   [] c = "/" -> 47   [] c = "0" -> 48   [] c = "1" -> 49
      [] c = "2" -> 50   [] c = "3" -> 51   [] c = "4" -> 52   [] c = "5" -> 53
      [] c = "6" -> 54   [] c = "7" -> 55   [] c = "8" -> 56   [] c = "9" -> 57
      [] c = ":" -> 58   [] c = "<" -> 60   [] c = ">" -> 62   [] c = "T" -> 84
      [] c = "\\" -> 92  [] c = "a" -> 97   [] c = "b" -> 98   [] c = "c" -> 99
      [] c = "d" -> 100  [] c = "e" -> 101  [] c = "f" -> 102
      [] OTHER -> 120

RECURSIVE StrLess(_, _)
\* a < b on Python strings: lexicographic by code point.
StrLess(a, b) ==
    IF b = <<>> THEN FALSE
    ELSE IF a = <<>> THEN TRUE
    ELSE IF Ord(Head(a)) # Ord(Head(b)) THEN Ord(Head(a)) < Ord(Head(b))
    ELSE StrLess(Tail(a), Tail(b))

(***************************************************************************)
(* json.dump of a dict of strings, and json.load                           *)
(***************************************************************************)
\* A mutant: the quote is written unescaped.
JsonEscapeCharNoQuote(c) ==
    CASE c = "\\" -> <<"\\", "\\">>
      [] c = "\n" -> <<"\\", "n">>
      [] c = "\r" -> <<"\\", "r">>
      [] c = "\t" -> <<"\\", "t">>
      [] OTHER -> <<c>>

\* json.encoder.py_encode_basestring_ascii, one character
JsonEscapeChar(c) ==
    CASE c = "\"" -> <<"\\", "\"">>
      [] c = "\\" -> <<"\\", "\\">>
      [] c = "\n" -> <<"\\", "n">>
      [] c = "\r" -> <<"\\", "r">>
      [] c = "\t" -> <<"\\", "t">>
      [] OTHER -> <<c>>

\* The characters of the model's alphabet that ESCAPE_ASCII matches.
JsonEscaped == {"\"", "\\", "\n", "\r", "\t"}

RECURSIVE JsonEscapeFrom(_, _)
\* The text from i up to the next match e is copied, the match replaced.
JsonEscapeTo(s, i, e) ==
    SubSeq(s, i, e - 1)
    \o (IF e > Len(s) THEN <<>> ELSE JsonEscapeChar(s[e]) \o JsonEscapeFrom(s, e + 1))

\* ESCAPE_ASCII.sub(replace, s) from index i
JsonEscapeFrom(s, i) == JsonEscapeTo(s, i, FirstOf(s, i, JsonEscaped))

\* json.dumps(s) of a string
JsonString(s) == <<"\"">> \o JsonEscapeFrom(s, 1) \o <<"\"">>

RECURSIVE JsonMembers(_)
JsonMembers(d) ==
    IF d = <<>> THEN <<>>
    ELSE JsonString(d[1][1]) \o <<":", " ">> \o JsonString(d[1][2])
         \o (IF Len(d) > 1 THEN <<",", " ">> ELSE <<>>) \o JsonMembers(Tail(d))

\* json.dumps(d) of a dict of strings, with the default separators
JsonDump(d) == <<"{">> \o JsonMembers(d) \o <<"}">>

JsonFail == [ok |-> FALSE, val |-> <<>>, next |-> 0]

JsonWhitespace == {" ", "\t", "\n", "\r"}

RECURSIVE SkipWs(_, _)
SkipWs(s, i) ==
    IF i <= Len(s) /\ s[i] \in JsonWhitespace THEN SkipWs(s, i + 1) ELSE i

\* The character an escape \c stands for.
JsonUnescape(c) ==
    CASE c = "n" -> "\n" [] c = "r" -> "\r" [] c = "t" -> "\t" [] OTHER -> c

\* The characters that end a chunk of a string: STRINGCHUNK's terminators.
JsonTerminators == {"\"", "\\", "\n", "\r", "\t"}

RECURSIVE ScanString(_, _, _)
\* One round of py_scanstring: the chunk of plain characters from i to its
\* terminator at e, then the terminator.
ScanChunk(s, i, acc, e) ==
    IF e > Len(s) THEN JsonFail
    ELSE IF s[e] = "\"" THEN [ok |-> TRUE, val |-> acc \o SubSeq(s, i, e - 1), next |-> e + 1]
    ELSE IF s[e] # "\\" THEN JsonFail
    ELSE IF e + 1 <= Len(s) /\ s[e + 1] \in {"\"", "\\", "/", "n", "r", "t"}
    THEN ScanString(s, e + 2, Append(acc \o SubSeq(s, i, e - 1), JsonUnescape(s[e + 1])))
    ELSE JsonFail

\* json.decoder.py_scanstring from the character after the opening quote.
ScanString(s, i, acc) == ScanChunk(s, i, acc, FirstOf(s, i, JsonTerminators))

RECURSIVE ScanMembers(_, _, _)
\* After a member's value v, at e: the end of the object or the next member.
ScanAfterValue(s, acc, e) ==
    IF e > Len(s) THEN JsonFail
    ELSE IF s[e] = "}" THEN [ok |-> TRUE, val |-> acc, next |-> e + 1]
    ELSE IF s[e] = "," THEN ScanMembers(s, SkipWs(s, e + 1), acc)
    ELSE JsonFail

\* The value scanned as v, for the key k.
ScanValue(s, acc, k, v) ==
    IF ~v.ok THEN JsonFail
    ELSE ScanAfterValue(s, Append(acc, <<k, v.val>>), SkipWs(s, v.next))

\* After the colon, at q, where the value starts.
ScanAfterColon(s, acc, k, q) ==
    IF q > Len(s) \/ s[q] # "\"" THEN JsonFail
    ELSE ScanValue(s, acc, k, ScanString(s, q + 1, <<>>))

\* After the key, at c, where the colon is due.
ScanColon(s, acc, k, c) ==
    IF c > Len(s) \/ s[c] # ":" THEN JsonFail
    ELSE ScanAfterColon(s, acc, k, SkipWs(s, c + 1))

\* The key scanned as k.
ScanKey(s, acc, k) ==
    IF ~k.ok THEN JsonFail ELSE ScanColon(s, acc, k.val, SkipWs(s, k.next))

\* json.decoder.JSONObject from the first key, at i.
ScanMembers(s, i, acc) ==
    IF i > Len(s) \/ s[i] # "\"" THEN JsonFail
    ELSE ScanKey(s, acc, ScanString(s, i + 1, <<>>))

\* The end of the document: nothing but whitespace may follow the object r.
ScanEnd(s, r) ==
    IF ~r.ok THEN JsonFail
    ELSE IF SkipWs(s, r.next) <= Len(s) THEN JsonFail
    ELSE r

\* After the opening brace, at m.
ScanObject(s, m) ==
    IF m <= Len(s) /\ s[m] = "}"
    THEN ScanEnd(s, [ok |-> TRUE, val |-> <<>>, next |-> m + 1])
    ELSE ScanEnd(s, ScanMembers(s, m, <<>>))

\* The document from its first character that is no whitespace, at b.
ScanDocument(s, b) ==
    IF b > Len(s) \/ s[b] # "{" THEN JsonFail ELSE ScanObject(s, SkipWs(s, b + 1))

\* json.loads(s) on the documents a store file can hold: an object of
\* strings parses to its dict, anything else here is a JSONDecodeError.
JsonLoad(s) == ScanDocument(s, SkipWs(s, 1))

\* key in d
HasKey(d, k) == \E i \in 1..Len(d) : d[i][1] = k

\* d[k], for a key of d (the last member of that name wins)
Item(d, k) ==
    d[CHOOSE j \in 1..Len(d) : d[j][1] = k /\ \A l \in (j + 1)..Len(d) : d[l][1] # k][2]

\* d.get(k)
DictGet(d, k) == IF HasKey(d, k) THEN Some(Item(d, k)) ELSE None

(***************************************************************************)
(* Constants of the program and of its environment                         *)
(***************************************************************************)
\* PASTES_DIR = "pastes"
PASTES_DIR == <<"p", "a", "s", "t", "e", "s">>

\* ".json"
JsonExt == <<".", "j", "s", "o", "n">>

\* The number of characters of a uuid kept as the paste id.
IdLen == 8

\* The length above which the HTML view cuts the content for its description.
DescriptionLimit == 150

\* The ellipsis the HTML view appends to a cut description.
Ellipsis == <<".", ".", ".">>

K_id == <<"i", "d">>

K_content == <<"c", "o", "n", "t", "e", "n", "t">>

K_title == <<"t", "i", "t", "l", "e">>

K_description == <<"d", "e", "s", "c", "r", "i", "p", "t", "i", "o", "n">>

K_created_at == <<"c", "r", "e", "a", "t", "e", "d", "_", "a", "t">>

\* request.host_url of the server the model talks to
HostUrl == <<"h", "t", "t", "p", ":", "/", "/", "h", "/">>

\* The largest second of the minute the model's clock shows.
MaxSecond == 1

\* datetime.now(): the wall clock, which the handler only reads.  The date,
\* hour and minute are held fixed; the second and the microsecond vary.
Times == [second : 0..MaxSecond, microsecond : {0, 500000}]

Digit(n) == <<"0", "1", "2", "3", "4", "5", "6", "7", "8", "9">>[n + 1]

\* "%02d" % n
TwoDigits(n) == <<Digit((n \div 10) % 10), Digit(n % 10)>>

\* "%06d" % n
SixDigits(n) ==
    <<Digit((n \div 100000) % 10), Digit((n \div 10000) % 10),
      Digit((n \div 1000) % 10), Digit((n \div 100) % 10),
      Digit((n \div 10) % 10), Digit(n % 10)>>

\* datetime.isoformat(): the fraction is written only when it is not zero.
isoformat(t) ==
    <<"2", "0", "2", "4", "-", "0", "1", "-", "0", "1", "T", "0", "0", ":",
      "0", "0", ":">> \o TwoDigits(t.second)
    \o (IF t.microsecond = 0 THEN <<>> ELSE <<".">> \o SixDigits(t.microsecond))

\* str(uuid.uuid4()) for a value whose first group repeats a and whose other
\* random digits are b: 8-4-4-4-12 hexadecimal digits, version 4, variant 8.
Uuid(a, b) ==
    Rep(<<a>>, 8) \o <<"-">> \o Rep(<<b>>, 4) \o <<"-", "4">> \o Rep(<<b>>, 3)
    \o <<"-", "8">> \o Rep(<<b>>, 3) \o <<"-">> \o Rep(<<b>>, 12)

\* uuid4() values: two that agree on their first eight digits, one that differs.
Uuids == {Uuid("a", "0"), Uuid("a", "1"), Uuid("b", "0")}

(***************************************************************************)
(* Storage helpers                                                         *)
(***************************************************************************)
\* str(uuid.uuid4())[:8]
generate_paste_id(u) == SubSeq(u, 1, IdLen)

\* os.path.join(PASTES_DIR, f"{paste_id}.json")
PastePath(paste_id) == PASTES_DIR \o <<"/">> \o paste_id \o JsonExt

\* The file system after path holds text.
WriteFile(fs, path, text) ==
    [p \in DOMAIN fs \cup {path} |-> IF p = path THEN text ELSE fs[p]]

\* open(path, 'w'): the file is created, or emptied when it exists.
OpenForWriting(fs, path) == WriteFile(fs, path, <<>>)

\* The text of a file after text is written at its start: what the file
\* held beyond the end of text stays.
Overwritten(old, text) == text \o SubSeq(old, Len(text) + 1, Len(old))

\* The write, at the close of the file, of the text json.dump has produced:
\* the file was opened at position 0 and is written from there.
WriteAtStart(fs, path, text) == WriteFile(fs, path, Overwritten(fs[path], text))

\* os.listdir(PASTES_DIR), as a set: the order is the file system's.
ListDir(fs) ==
    {SubSeq(p, Len(PASTES_DIR) + 2, Len(p)) :
        p \in {q \in DOMAIN fs : SubSeq(q, 1, Len(PASTES_DIR) + 1) = PASTES_DIR \o <<"/">>}}

\* The dict save_paste builds.
PasteData(paste_id, content, title, description, now) ==
    << <<K_id, paste_id>>,
       <<K_content, content>>,
       <<K_title, IF Truthy(title) THEN title[1]
                  ELSE <<"P", "a", "s", "t", "e", " ">> \o paste_id>>,
       <<K_description, IF Truthy(description) THEN description[1] ELSE <<>> >>,
       <<K_created_at, isoformat(now)>> >>

\* save_paste: the file it writes and the dict it returns.
save_paste(paste_id, content, title, description, now) ==
    [path |-> PastePath(paste_id),
     text |-> JsonDump(PasteData(paste_id, content, title, description, now)),
     paste_data |-> PasteData(paste_id, content, title, description, now)]

\* What load_paste returns for the outcome r of json.load.
Loaded(r) ==
    IF r.ok THEN [kind |-> "value", value |-> r.val]
    ELSE [kind |-> "raise", value |-> <<>>]

\* A mutant: the file is opened without the check that it exists.
load_paste_unchecked(fs, paste_id) ==
    IF PastePath(paste_id) \notin DOMAIN fs THEN [kind |-> "raise", value |-> <<>>]
    ELSE Loaded(JsonLoad(fs[PastePath(paste_id)]))

\* load_paste: None, the parsed dict, or the exception json.load raises.
load_paste(fs, paste_id) ==
    IF PastePath(paste_id) \notin DOMAIN fs THEN [kind |-> "none", value |-> <<>>]
    ELSE Loaded(JsonLoad(fs[PastePath(paste_id)]))

(***************************************************************************)
(* Requests and responses                                                  *)
(***************************************************************************)
NoFields == [content |-> None, title |-> None, description |-> None, prompt |-> None]

\* A request.  json_kind says what the body of a JSON request parses to:
\* "invalid" (no JSON), "falsy" (null, 0, [], {}, ...), "object", or
\* "nonobject" (a non-empty list, a number, a string, true).
Req(route, method, is_json, args, json_kind, json, form, paste_id) ==
    [paste_id |-> paste_id, route |-> route, method |-> method, is_json |-> is_json,
     args |-> args, json_kind |-> json_kind, json |-> json, form |-> form]

ReadReq(route, paste_id) ==
    Req(route, "GET", FALSE, NoFields, "absent", NoFields, NoFields, paste_id)

Resp(status, kind, data) == [kind |-> kind, status |-> status, data |-> data]

\* request.host_url.rstrip('/')
BaseUrl == RStrip(HostUrl, "/")

PasteUrl(paste_id) == BaseUrl \o <<"/">> \o paste_id

RawUrl(paste_id) == BaseUrl \o <<"/">> \o paste_id \o <<"/", "r", "a", "w">>

\* An unhandled exception: Flask answers 500.
Raised(name) == Resp(500, "exception", name)

(***************************************************************************)
(* GET /api/paste/<paste_id>                                               *)
(***************************************************************************)
\* pastebin_get once load_paste has returned l.
PasteJson(l, paste_id) ==
    IF l.kind = "raise" THEN Raised("JSONDecodeError")
    ELSE IF l.kind = "none" \/ l.value = <<>>
    THEN Resp(404, "json_error", "Paste not found")
    ELSE IF \E k \in {K_id, K_title, K_description, K_content, K_created_at} :
                ~HasKey(l.value, k)
    THEN Raised("KeyError")
    ELSE Resp(200, "paste",
              [paste_id |-> Item(l.value, K_id),
               content |-> Item(l.value, K_content),
               title |-> Item(l.value, K_title),
               description |-> Item(l.value, K_description),
               success |-> TRUE,
               created_at |-> Item(l.value, K_created_at),
               url |-> PasteUrl(paste_id),
               raw_url |-> RawUrl(paste_id)])

pastebin_get(fs, paste_id) == PasteJson(load_paste(fs, paste_id), paste_id)

(***************************************************************************)
(* GET /<paste_id>/raw                                                     *)
(***************************************************************************)
\* view_paste_raw once load_paste has returned l.
PasteRaw(l) ==
    IF l.kind = "raise" THEN Raised("JSONDecodeError")
    ELSE IF l.kind = "none" \/ l.value = <<>> THEN Resp(404, "text", "Paste not found")
    ELSE IF ~HasKey(l.value, K_content) THEN Raised("KeyError")
    ELSE Resp(200, "raw", Item(l.value, K_content))

view_paste_raw(fs, paste_id) == PasteRaw(load_paste(fs, paste_id))

(***************************************************************************)
(* GET /<paste_id>                                                         *)
(***************************************************************************)
\* markupsafe.escape of one character
HtmlEscapeChar(c) ==
    CASE c = "&" -> <<"&", "a", "m", "p", ";">>
      [] c = "<" -> <<"&", "l", "t", ";">>
      [] c = ">" -> <<"&", "g", "t", ";">>
      [] c = "\"" -> <<"&", "#", "3", "4", ";">>
      [] c = "'" -> <<"&", "#", "3", "9", ";">>
      [] OTHER -> <<c>>

HtmlEscaped == {"&", "<", ">", "\"", "'"}

RECURSIVE HtmlEscapeFrom(_, _)
HtmlEscapeTo(s, i, e) ==
    SubSeq(s, i, e - 1)
    \o (IF e > Len(s) THEN <<>> ELSE HtmlEscapeChar(s[e]) \o HtmlEscapeFrom(s, e + 1))

HtmlEscapeFrom(s, i) == HtmlEscapeTo(s, i, FirstOf(s, i, HtmlEscaped))

\* What {{ x }} renders for a string x under Flask's autoescape.
HtmlEscape(s) == HtmlEscapeFrom(s, 1)

\* content[:150] + "..." if len(content) > 150 else content
CutContent(content) ==
    IF Len(content) > DescriptionLimit
    THEN SubSeq(content, 1, DescriptionLimit) \o Ellipsis
    ELSE content

\* A mutant: the excerpt is cut without the ellipsis.
ContentDescriptionNoEllipsis(content) ==
    Replace(Replace(IF Len(content) > DescriptionLimit
                    THEN SubSeq(content, 1, DescriptionLimit)
                    ELSE content, "\n", " "), "\r", " ")

\* The description the HTML view makes of the content when none is stored.
ContentDescription(content) ==
    Replace(Replace(CutContent(content), "\n", " "), "\r", " ")

\* The description the HTML view shows for the dict d.
ShownDescription(d) ==
    IF Truthy(DictGet(d, K_description)) THEN Item(d, K_description)
    ELSE ContentDescription(Item(d, K_content))

\* view_paste once load_paste has returned l.
PasteHtml(l, paste_id) ==
    IF l.kind = "raise" THEN Raised("JSONDecodeError")
    ELSE IF l.kind = "none" \/ l.value = <<>> THEN Resp(404, "text", "Paste not found")
    ELSE IF \E k \in {K_id, K_title, K_content, K_created_at} : ~HasKey(l.value, k)
    THEN Raised("KeyError")
    ELSE Resp(200, "html",
              [paste_id |-> HtmlEscape(Item(l.value, K_id)),
               content |-> HtmlEscape(Item(l.value, K_content)),
               title |-> HtmlEscape(Item(l.value, K_title)),
               description |-> HtmlEscape(ShownDescription(l.value)),
               created_at |-> HtmlEscape(Item(l.value, K_created_at)),
               paste_url |-> HtmlEscape(PasteUrl(paste_id))])

view_paste(fs, paste_id) == PasteHtml(load_paste(fs, paste_id), paste_id)

(***************************************************************************)
(* GET /api/paste_list                                                     *)
(***************************************************************************)
RECURSIVE InsertAscending(_, _)
InsertAscending(sorted, x) ==
    IF sorted = <<>> THEN <<x>>
    ELSE IF StrLess(x.created_at, Head(sorted).created_at) THEN <<x>> \o sorted
    ELSE <<Head(sorted)>> \o InsertAscending(Tail(sorted), x)

RECURSIVE SortedAscending(_)
\* A mutant: the list sorted without reverse=True.
SortedAscending(pastes) ==
    IF pastes = <<>> THEN <<>>
    ELSE InsertAscending(SortedAscending(SubSeq(pastes, 1, Len(pastes) - 1)),
                         pastes[Len(pastes)])

RECURSIVE InsertDescending(_, _)
\* x after every element whose key is not smaller: the sort is stable.
InsertDescending(sorted, x) ==
    IF sorted = <<>> THEN <<x>>
    ELSE IF StrLess(Head(sorted).created_at, x.created_at) THEN <<x>> \o sorted
    ELSE <<Head(sorted)>> \o InsertDescending(Tail(sorted), x)

RECURSIVE SortedInsert(_)
SortedInsert(pastes) ==
    IF pastes = <<>> THEN <<>>
    ELSE InsertDescending(SortedInsert(SubSeq(pastes, 1, Len(pastes) - 1)),
                          pastes[Len(pastes)])

\* sorted(pastes, key=lambda x: x["created_at"], reverse=True)
SortedNewestFirst(pastes) == SortedInsert(pastes)

\* The orders in which os.listdir may give the names.
Listings(fs) ==
    {o \in [1..Cardinality(ListDir(fs)) -> ListDir(fs)] :
        \A i, j \in DOMAIN o : i # j => o[i] # o[j]}

\* Where a handler stands after a step: at "done" with its response, at
\* "write" with the file it has opened and the text to write, at "list" with
\* the names still to load and the entries collected.
Stand(pc, resp, path, text, listing, pastes) ==
    [response |-> resp, path |-> path, text |-> text, pastes |-> pastes,
     pc |-> pc, listing |-> listing]

Done(resp) == Stand("done", resp, <<>>, <<>>, <<>>, <<>>)

\* filename.endswith('.json')
IsJsonName(filename) == EndsWith(filename, JsonExt)

\* The loop of pastebin_list before its next load_paste, or its end.
PasteList(listing, pastes) ==
    IF listing = <<>> THEN Done(Resp(200, "list", SortedNewestFirst(pastes)))
    ELSE Stand("list", Resp(0, "none", ""), <<>>, <<>>, listing, pastes)

\* One round of the loop of pastebin_list, load_paste having returned l.
CollectLoaded(listing, pastes, l) ==
    IF l.kind = "raise" THEN Done(Raised("JSONDecodeError"))
    ELSE IF l.kind = "none" \/ l.value = <<>> THEN PasteList(Tail(listing), pastes)
    ELSE IF \E k \in {K_id, K_title, K_created_at} : ~HasKey(l.value, k)
    THEN Done(Raised("KeyError"))
    ELSE PasteList(Tail(listing),
             Append(pastes, [title |-> Item(l.value, K_title),
                             created_at |-> Item(l.value, K_created_at),
                             url |-> PasteUrl(Item(l.value, K_id)),
                             id |-> Item(l.value, K_id)]))

\* The round of pastebin_list for the first of the names still to load.
CollectPaste(fs, listing, pastes) ==
    CollectLoaded(listing, pastes,
        load_paste(fs, SubSeq(listing[1], 1, Len(listing[1]) - Len(JsonExt))))

\* pastebin_list, os.listdir having given listing: the names that do not end
\* in .json are passed over.
pastebin_list(listing) == PasteList(SelectSeq(listing, IsJsonName), <<>>)

(***************************************************************************)
(* GET /                                                                   *)
(***************************************************************************)
home == Resp(200, "home", "Simple Pastebin")

(***************************************************************************)
(* GET, POST /api/paste                                                    *)
(***************************************************************************)
\* request.get_json() or {}, for a body that parses and has .get
JsonBody(req) == IF req.json_kind = "object" THEN req.json ELSE NoFields

\* A mutant: POST reads the query parameter content before its body.
RequestContentQueryFirst(req) ==
    IF req.method = "GET" THEN PyOr(req.args.content, req.args.prompt)
    ELSE IF req.is_json
    THEN PyOr(PyOr(PyOr(req.args.content, req.args.prompt), JsonBody(req).content),
              JsonBody(req).prompt)
    ELSE PyOr(PyOr(PyOr(req.args.content, req.args.prompt), req.form.content),
              req.form.prompt)

\* The content pastebin_create takes from the request.
RequestContent(req) ==
    IF req.method = "GET" THEN PyOr(req.args.content, req.args.prompt)
    ELSE IF req.is_json
    THEN PyOr(PyOr(req.args.prompt, JsonBody(req).content), JsonBody(req).prompt)
    ELSE PyOr(PyOr(req.args.prompt, req.form.content), req.form.prompt)

RequestTitle(req) ==
    IF req.method = "GET" THEN req.args.title
    ELSE IF req.is_json THEN JsonBody(req).title
    ELSE req.form.title

RequestDescription(req) ==
    IF req.method = "GET" THEN req.args.description
    ELSE IF req.is_json THEN JsonBody(req).description
    ELSE req.form.description

\* What reading the request raises: get_json() on a body that is no JSON
\* is a BadRequest, .get on a parsed body that is no dict an AttributeError.
RequestFault(req) ==
    IF req.method # "GET" /\ req.is_json /\ req.json_kind = "invalid" THEN "BadRequest"
    ELSE IF req.method # "GET" /\ req.is_json /\ req.json_kind = "nonobject"
    THEN "AttributeError"
    ELSE "none"

\* The response of a create that saved paste_data.
Created(req, paste_id, paste_data) ==
    IF req.method = "POST" /\ ~req.is_json
    THEN Resp(302, "redirect", PasteUrl(paste_id))
    ELSE Resp(200, "created",
              [paste_id |-> paste_id,
               title |-> Item(paste_data, K_title),
               description |-> Item(paste_data, K_description),
               success |-> TRUE,
               created_at |-> Item(paste_data, K_created_at),
               url |-> PasteUrl(paste_id),
               raw_url |-> RawUrl(paste_id)])

\* pastebin_create in save_paste, the file opened: the text to write and the
\* response that follows the write.
Saving(req, paste_id, saved) ==
    Stand("write", Created(req, paste_id, saved.paste_data), saved.path,
          saved.text, <<>>, <<>>)

\* The paste pastebin_create saves for a request with content.
SavePaste(req, u, now) ==
    save_paste(generate_paste_id(u), RequestContent(req)[1], RequestTitle(req),
               RequestDescription(req), now)

\* A mutant: the paste is saved before the content is checked.
pastebin_create_save_first(req, u, now) ==
    IF RequestFault(req) = "BadRequest" THEN Done(Resp(400, "http_error", "Bad Request"))
    ELSE IF RequestFault(req) = "AttributeError" THEN Done(Raised("AttributeError"))
    ELSE IF ~Truthy(RequestContent(req))
    THEN Stand("write", Resp(400, "json_error", "No content provided"),
               PastePath(generate_paste_id(u)), <<"{", "}">>, <<>>, <<>>)
    ELSE Saving(req, generate_paste_id(u), SavePaste(req, u, now))

\* pastebin_create with uuid4() giving u and the clock showing now, up to
\* its response or to the open(filepath, 'w') of save_paste.
pastebin_create(req, u, now) ==
    IF RequestFault(req) = "BadRequest" THEN Done(Resp(400, "http_error", "Bad Request"))
    ELSE IF RequestFault(req) = "AttributeError" THEN Done(Raised("AttributeError"))
    ELSE IF ~Truthy(RequestContent(req))
    THEN Done(Resp(400, "json_error", "No content provided"))
    ELSE Saving(req, generate_paste_id(u), SavePaste(req, u, now))

(***************************************************************************)
(* The requests the model sends                                            *)
(***************************************************************************)
Fields(c, p, t, d) == [content |-> c, title |-> t, description |-> d, prompt |-> p]

GetCreate(args) ==
    Req("create", "GET", FALSE, args, "absent", NoFields, NoFields, <<>>)

GetCreateWithJson(args, json) ==
    Req("create", "GET", TRUE, args, "object", json, NoFields, <<>>)

PostJson(args, kind, json) ==
    Req("create", "POST", TRUE, args, kind, json, NoFields, <<>>)

PostForm(args, form) ==
    Req("create", "POST", FALSE, args, "absent", NoFields, form, <<>>)

QueryText == <<"q", "\"", "\\">>

QueryPrompt == <<"p", "\n", "\r">>

BodyText == <<"h", "e", "l", "l", "o", " ", "w", "o", "r", "l", "d">>

BodyPrompt == <<"<", "&", ">", "\t", "'">>

TitleText == <<"T", "<">>

DescriptionText == <<"d", "\n">>

QueryContents == {None, Some(<<>>), Some(QueryText)}

QueryPrompts == {None, Some(QueryPrompt)}

BodyContents == {None, Some(<<>>), Some(BodyText)}

BodyPrompts == {None, Some(BodyPrompt)}

\* Create requests of every kind, with content in every combination of places.
RichRequests ==
    {GetCreate(Fields(c, p, None, None)) : c \in QueryContents, p \in QueryPrompts}
    \cup {GetCreateWithJson(NoFields, Fields(Some(BodyText), None, None, None))}
    \cup {PostJson(Fields(c, p, None, None), "object", Fields(bc, bp, None, None)) :
            c \in QueryContents, p \in QueryPrompts,
            bc \in BodyContents, bp \in BodyPrompts}
    \cup {PostJson(Fields(None, p, None, None), k, NoFields) :
            p \in QueryPrompts, k \in {"invalid", "falsy", "nonobject"}}
    \cup {PostForm(Fields(c, p, None, None), Fields(bc, bp, None, None)) :
            c \in QueryContents, p \in QueryPrompts,
            bc \in BodyContents, bp \in BodyPrompts}

\* A few create requests, for the runs that are about the store.
StoreRequests ==
    {GetCreate(Fields(Some(QueryText), None, None, None)),
     PostForm(NoFields, Fields(Some(BodyText), None, Some(TitleText),
                               Some(DescriptionText))),
     GetCreate(NoFields)}

ShortWithBreaks == <<"a", "\n", "b", "\r", "<">>

AtLimit == Rep(<<"a">>, DescriptionLimit - 2) \o <<"\n", "b">>

OverLimit == Rep(<<"a">>, DescriptionLimit) \o <<"b">>

OverLimitWithBreaks ==
    <<"a", "\r", "\n">> \o Rep(<<"b">>, DescriptionLimit - 4) \o <<"\n", "\r", "c">>

\* Create requests whose content is around the description limit.
LongRequests ==
    {GetCreate(Fields(Some(c), None, None, None)) :
        c \in {ShortWithBreaks, AtLimit, OverLimit, OverLimitWithBreaks}}
    \cup {GetCreate(Fields(Some(OverLimit), None, None, Some(DescriptionText)))}

\* The ids the read requests ask for: every id a create can give, and one
\* that none gives.
ReadIds == {generate_paste_id(u) : u \in Uuids} \cup {Rep(<<"f">>, IdLen)}

(***************************************************************************)
(* The state machine                                                       *)
(***************************************************************************)
\* A thread, and the handler it runs: pc is "idle", "write" or "list".
Thread(req, stand) ==
    [response |-> stand.response, path |-> stand.path, text |-> stand.text,
     pastes |-> stand.pastes, pc |-> stand.pc,
     listing |-> stand.listing, req |-> req]

NoRequest == ReadReq("none", <<>>)

NoResponse == Resp(0, "none", "")

Idle == Thread(NoRequest, Stand("idle", NoResponse, <<>>, <<>>, <<>>, <<>>))

\* The thread the server gives the next request: the first that is idle.
Free(t) ==
    /\ threads[t].pc = "idle"
    /\ \A s \in DOMAIN threads : s < t => threads[s].pc # "idle"

\* After os.makedirs(PASTES_DIR, exist_ok=True) on a fresh directory, with
\* the threads of T to serve requests.
InitOn(T) ==
    /\ files = [p \in {} |-> <<>>]
    /\ threads = [t \in T |-> Idle]
    /\ request = NoRequest
    /\ response = NoResponse

\* The step answers req with resp.
Answer(req, resp) ==
    /\ request' = req
    /\ response' = resp

\* The step answers no request.
NoAnswer == Answer(NoRequest, NoResponse)

\* The first step of a create request on thread t, pastebin_create standing
\* at stand after it: answered, or its file opened.
CreateStep(t, req, stand) ==
    IF stand.pc = "done"
    THEN /\ Answer(req, stand.response)
         /\ UNCHANGED <<files, threads>>
    ELSE /\ files' = OpenForWriting(files, stand.path)
         /\ threads' = [threads EXCEPT ![t] = Thread(req, stand)]
         /\ NoAnswer

HandleCreate(requests, uuids, times) ==
    \E t \in DOMAIN threads, req \in requests, u \in uuids, now \in times :
        /\ Free(t)
        /\ CreateStep(t, req, pastebin_create(req, u, now))

\* The end of save_paste and of pastebin_create: the document is written at
\* the close of the file and the request answered.
HandleWrite ==
    \E t \in DOMAIN threads :
        /\ threads[t].pc = "write"
        /\ files' = WriteAtStart(files, threads[t].path, threads[t].text)
        /\ threads' = [threads EXCEPT ![t] = Idle]
        /\ Answer(threads[t].req, threads[t].response)

\* The lengths at which a write of text may stop short: every proper prefix.
CutPoints(text) == 0..(Len(text) - 1)

\* The file systems a write of text to path may leave when the file can grow
\* no longer than one of limits.
CutWrites(fs, path, text, limits) ==
    {WriteAtStart(fs, path, SubSeq(text, 1, n)) :
        n \in {m \in CutPoints(text) : m \in limits}}

\* The write of save_paste fails with OSError (the disk is full, or the file
\* has reached the size the system allows it): the part of the document that
\* fitted is written, and the handler lets the error through.
SaveFault(limits) ==
    \E t \in DOMAIN threads :
        /\ threads[t].pc = "write"
        /\ files' \in CutWrites(files, threads[t].path, threads[t].text, limits)
        /\ threads' = [threads EXCEPT ![t] = Idle]
        /\ Answer(threads[t].req, Raised("OSError"))

\* A read handler with one load_paste, answering resp.
ReadStep(req, resp) ==
    /\ \E t \in DOMAIN threads : Free(t)
    /\ Answer(req, resp)
    /\ UNCHANGED <<files, threads>>

HandleGet ==
    \E paste_id \in ReadIds :
        ReadStep(ReadReq("get", paste_id), pastebin_get(files, paste_id))

HandleRaw ==
    \E paste_id \in ReadIds :
        ReadStep(ReadReq("raw", paste_id), view_paste_raw(files, paste_id))

HandleView ==
    \E paste_id \in ReadIds :
        ReadStep(ReadReq("view", paste_id), view_paste(files, paste_id))

\* A step of pastebin_list on thread t that leaves it standing at stand.
ListStep(t, stand) ==
    /\ UNCHANGED files
    /\ IF stand.pc = "done"
       THEN /\ threads' = [threads EXCEPT ![t] = Idle]
            /\ Answer(ReadReq("list", <<>>), stand.response)
       ELSE /\ threads' = [threads EXCEPT ![t] = Thread(ReadReq("list", <<>>), stand)]
            /\ NoAnswer

\* os.listdir(PASTES_DIR)
HandleList ==
    \E t \in DOMAIN threads, listing \in Listings(files) :
        /\ Free(t)
        /\ ListStep(t, pastebin_list(listing))

\* The load_paste of one round of the loop of pastebin_list.
HandleListLoad ==
    \E t \in DOMAIN threads :
        /\ threads[t].pc = "list"
        /\ ListStep(t, CollectPaste(files, threads[t].listing, threads[t].pastes))

HandleHome == ReadStep(ReadReq("home", <<>>), home)

Handle(requests, uuids, times, limits) ==
    \/ HandleCreate(requests, uuids, times)
    \/ HandleWrite
    \/ SaveFault(limits)
    \/ HandleGet
    \/ HandleRaw
    \/ HandleView
    \/ HandleList
    \/ HandleListLoad
    \/ HandleHome

\* The threads that serve requests at once.
MaxThreads == 2

Init == InitOn(1..MaxThreads)

\* uuid4() values that agree on their first eight digits.
CollidingUuids == {Uuid("a", "0"), Uuid("a", "1")}

OneUuid == {Uuid("a", "0")}

OneTime == {[second |-> 0, microsecond |-> 0]}

\* A few sizes a file may be held to.
FewLimits == {0, 1, 10, 60, 120}

\* Requests handled at once: a few create requests on one id, and the reads.
Next == Handle(StoreRequests, CollidingUuids, OneTime, FewLimits)

Spec == Init /\ [][Next]_vars

OneThread == {1}

\* One request at a time: the store under a few create requests, colliding
\* ids and a moving clock.
NextStore == Handle(StoreRequests, Uuids, Times, FewLimits)

SpecStore == InitOn(OneThread) /\ [][NextStore]_vars

\* One request at a time: every kind of create request, on one id.
NextCreate == Handle(RichRequests, OneUuid, OneTime, FewLimits)

SpecCreate == InitOn(OneThread) /\ [][NextCreate]_vars

\* One request at a time: contents around the description limit, on one id.
NextDescription == Handle(LongRequests, OneUuid, OneTime, FewLimits)

SpecDescription == InitOn(OneThread) /\ [][NextDescription]_vars

\* One create request at a time, its write cut at any length.
FaultRequests == {GetCreate(Fields(Some(QueryText), None, None, None))}

NextFault == Handle(FaultRequests, OneUuid, OneTime, Nat)

SpecFault == InitOn(OneThread) /\ [][NextFault]_vars

(***************************************************************************)
(* Properties                                                              *)
(***************************************************************************)
\* The routes that read one paste.
ReadRoutes == {"get", "raw", "view"}

\* The create succeeded: JSON for the new paste, or the redirect to it.
Succeeded(resp) == resp.kind \in {"created", "redirect"}

\* The id of the paste a successful create answers with: the paste_id of the
\* JSON, or the last segment of the redirect's Location.
CreatedId(resp) ==
    IF resp.kind = "created" THEN resp.data.paste_id
    ELSE SubSeq(resp.data, Len(resp.data) - IdLen + 1, Len(resp.data))

\* The file of paste_id exists.
Stored(paste_id) == PastePath(paste_id) \in DOMAIN files

\* The file of paste_id exists and is a JSON document.
Parsable(paste_id) == Stored(paste_id) /\ JsonLoad(files[PastePath(paste_id)]).ok

\* The record in the file of paste_id.
Record(paste_id) == JsonLoad(files[PastePath(paste_id)]).val

\* The first truthy value of a sequence of optionals, or None.
FirstTruthy(values) ==
    IF \E i \in DOMAIN values : Truthy(values[i])
    THEN values[CHOOSE i \in DOMAIN values :
                    Truthy(values[i]) /\ \A j \in 1..(i - 1) : ~Truthy(values[j])]
    ELSE None

\* The places pastebin_create reads for the kind of the request, in order.
ExpectedContent(req) ==
    IF req.method = "GET" THEN FirstTruthy(<<req.args.content, req.args.prompt>>)
    ELSE IF req.is_json
    THEN FirstTruthy(<<req.args.prompt, req.json.content, req.json.prompt>>)
    ELSE FirstTruthy(<<req.args.prompt, req.form.content, req.form.prompt>>)

\* C1: requests being served one at a time, right after a create that
\* succeeded with content C (the first value in the places read for the kind
\* of the request) and answered with paste id p, GET /p/raw answers 200 with
\* a body equal to C.
C1_RoundTrip ==
    (request.route = "create" /\ Succeeded(response)) =>
        /\ view_paste_raw(files, CreatedId(response)).status = 200
        /\ view_paste_raw(files, CreatedId(response)).kind = "raw"
        /\ Truthy(ExpectedContent(request))
        /\ view_paste_raw(files, CreatedId(response)).data = ExpectedContent(request)[1]

\* A create of a content with a quote and a backslash succeeded, and the raw
\* view of its paste is that content.
C1_Witness ==
    /\ request.route = "create"
    /\ response.kind = "created"
    /\ request.args.content = Some(QueryText)
    /\ view_paste_raw(files, CreatedId(response)).status = 200
    /\ view_paste_raw(files, CreatedId(response)).data = QueryText

\* C2: for an id with no stored record, GET /id, GET /id/raw and
\* GET /api/paste/id each answer 404, in every state of the store.
C2_MissingIsNotFound ==
    /\ \A paste_id \in ReadIds :
           ~Stored(paste_id) =>
               /\ view_paste(files, paste_id).status = 404
               /\ view_paste_raw(files, paste_id).status = 404
               /\ pastebin_get(files, paste_id).status = 404
    /\ (request.route \in ReadRoutes /\ ~Stored(request.paste_id)) =>
           response.status = 404

\* A read of an id that has no record, in a store that holds records, was
\* answered 404.
C2_Witness ==
    /\ request.route = "raw"
    /\ ~Stored(request.paste_id)
    /\ DOMAIN files # {}
    /\ response.status = 404

\* No place of the request holds a content: neither content nor prompt, in
\* the query, the JSON body or the form.
NoContentSupplied(req) ==
    \A f \in {req.args, req.json, req.form} : ~Truthy(f.content) /\ ~Truthy(f.prompt)

\* C3: a create request that carries no content is answered 400, whatever
\* its method and body.
C3_NoContentIsBadRequest ==
    (request.route = "create" /\ NoContentSupplied(request)) => response.status = 400

\* The ids of the records that parse.
ParsableIds == {paste_id \in ReadIds : Parsable(paste_id)}

\* C4: GET /api/paste_list answers 200 with the records that parse, whatever
\* else the store directory holds.
C4_ListSkipsUnparsable ==
    request.route = "list" =>
        /\ response.status = 200
        /\ response.kind = "list"
        /\ {response.data[i].id : i \in DOMAIN response.data} = ParsableIds

\* C5: a read of a paste whose record exists and does not parse is answered
\* 404.
C5_UnparsableIsNotFound ==
    (/\ request.route \in ReadRoutes
     /\ Stored(request.paste_id)
     /\ ~Parsable(request.paste_id)) => response.status = 404

\* C6: a record that has been created is the same after every later request
\* that is answered without a fault.
C6_Immutable ==
    [][response'.kind # "exception" =>
         \A p \in DOMAIN files :
             JsonLoad(files[p]).ok =>
                 /\ p \in DOMAIN files'
                 /\ JsonLoad(files'[p]).ok
                 /\ JsonLoad(files'[p]).val = JsonLoad(files[p]).val]_vars

\* The HTML view showed a paste that was stored without a description.
ViewedWithoutDescription ==
    /\ request.route = "view"
    /\ response.kind = "html"
    /\ Item(Record(request.paste_id), K_description) = <<>>

NotLineBreak(c) == c \notin {"\n", "\r"}

\* The description as C7 has it: the first 150 characters without their line
\* breaks for a longer content, the content as it is otherwise.
ClaimedDescription(content) ==
    IF Len(content) > DescriptionLimit
    THEN SelectSeq(SubSeq(content, 1, DescriptionLimit), NotLineBreak)
    ELSE content

\* C7 as stated: the description of a paste stored without one is the
\* content cut to 150 characters with the line breaks removed, or the content
\* unmodified when it is no longer than that.
C7_DescriptionAsClaimed ==
    ViewedWithoutDescription =>
        response.data.description =
            HtmlEscape(ClaimedDescription(Item(Record(request.paste_id), K_content)))

\* Character by character: the content's, a space for a line feed or a
\* carriage return, and three dots after the 150th when the content is longer.
ExpectedDescription(content) ==
    [i \in 1..(IF Len(content) > DescriptionLimit THEN DescriptionLimit + 3
               ELSE Len(content)) |->
        IF i > DescriptionLimit THEN "."
        ELSE IF content[i] \in {"\n", "\r"} THEN " "
        ELSE content[i]]

\* C7, amended: the description of a paste stored without one is the content,
\* cut to its first 150 characters and followed by "..." when it is longer,
\* with every line feed and carriage return replaced by a space.
C7_DescriptionCutAndSpaced ==
    ViewedWithoutDescription =>
        response.data.description =
            HtmlEscape(ExpectedDescription(Item(Record(request.paste_id), K_content)))

\* The HTML view showed a paste without a description whose content is longer
\* than the limit and has line breaks before and after it.
C7_Witness ==
    /\ ViewedWithoutDescription
    /\ Item(Record(request.paste_id), K_content) = OverLimitWithBreaks

\* The content as C8 has it: the query's, else the JSON body's, else the
\* form's, for either method.
ClaimedContent(req) ==
    FirstTruthy(<<req.args.content, req.args.prompt, req.json.content,
                  req.json.prompt, req.form.content, req.form.prompt>>)

\* The paste a successful create answers with holds content.
StoredContentIs(content) ==
    /\ Succeeded(response)
    /\ Parsable(CreatedId(response))
    /\ Item(Record(CreatedId(response)), K_content) = content

\* The write of the create request to its file was cut short.
WriteFailed == response = Raised("OSError")

\* C8 as stated: a create request that supplies content in the query, the
\* JSON body or the form is accepted, and the paste holds the content of the
\* first of these that supplies one.  (Requests whose JSON body is no object,
\* and writes that fail, are left out: they fail for another reason.)
C8_AnySourceInOrder ==
    (/\ request.route = "create"
     /\ request.json_kind \notin {"invalid", "nonobject"}
     /\ ~WriteFailed
     /\ Truthy(ClaimedContent(request))) =>
        StoredContentIs(ClaimedContent(request)[1])

\* C8, amended: a GET takes the content from the query (content, then
\* prompt); a POST with a JSON object from the query's prompt, then the body's
\* content, then the body's prompt; any other POST from the query's prompt,
\* then the form's content, then the form's prompt.  A request with a value in
\* one of the places read for its kind is accepted, and the paste holds the
\* first of them when the request is answered, unless the write to the file
\* fails; requests are served one at a time.
C8_SourcesByMethod ==
    (/\ request.route = "create"
     /\ ~WriteFailed
     /\ (request.method = "POST" /\ request.is_json =>
             request.json_kind \notin {"invalid", "nonobject"})
     /\ Truthy(ExpectedContent(request))) =>
        StoredContentIs(ExpectedContent(request)[1])

\* A form POST with a content in the query and another in the form was
\* accepted, and the paste holds the form's.
C8_Witness ==
    /\ request.route = "create"
    /\ request.method = "POST"
    /\ ~request.is_json
    /\ request.args.content = Some(QueryText)
    /\ request.args.prompt = None
    /\ request.form.content = Some(BodyText)
    /\ StoredContentIs(BodyText)

\* C9: when every record parses and the store stays as it is while the
\* request is served, GET /api/paste_list answers with one entry for each
\* stored paste, newest first by created_at.
C9_ListCompleteNewestFirst ==
    (request.route = "list" /\ \A p \in DOMAIN files : JsonLoad(files[p]).ok) =>
        /\ response.status = 200
        /\ response.kind = "list"
        /\ Len(response.data) = Cardinality(DOMAIN files)
        /\ {PastePath(response.data[i].id) : i \in DOMAIN response.data} = DOMAIN files
        /\ \A i \in DOMAIN response.data :
               response.data[i].created_at =
                   Item(Record(response.data[i].id), K_created_at)
        /\ \A i, j \in DOMAIN response.data :
               i < j => ~StrLess(response.data[i].created_at, response.data[j].created_at)

\* The list shows two pastes created at different times.
C9_Witness ==
    /\ request.route = "list"
    /\ response.kind = "list"
    /\ Len(response.data) = 2
    /\ StrLess(response.data[2].created_at, response.data[1].created_at)

\* The step opens the file of a create request on thread t, or writes it.
WritesOn(t) ==
    \/ threads[t].pc = "idle" /\ threads'[t].pc = "write"
    \/ threads[t].pc = "write" /\ threads'[t].pc = "idle"

\* The request thread t is handling in a step that opens or writes its file.
WriterOn(t) == IF threads[t].pc = "write" THEN threads[t].req ELSE threads'[t].req

\* C10: a read request and a create rejected with 400 leave every file as it
\* is, a file changes only in a step of a create request that carries a
\* content, and no request removes a file.
C10_OnlyCreateWrites ==
    [][/\ (request'.route \in ReadRoutes \cup {"list", "home"} \/ response'.status = 400)
           => files' = files
       /\ files' # files =>
              \E t \in DOMAIN threads :
                  /\ WritesOn(t)
                  /\ WriterOn(t).route = "create"
                  /\ Truthy(ExpectedContent(WriterOn(t)))
       /\ DOMAIN files \subseteq DOMAIN files']_vars

\* A create was rejected with 400 while the store holds a record.
C10_Witness ==
    /\ request.route = "create"
    /\ response.status = 400
    /\ \E paste_id \in ReadIds : Parsable(paste_id)

====
